---- MODULE Spec2Model ----
(***************************************************************************)
(* karp-pipeline: the batch dispatcher cli() of karppipeline/cli.py and    *)
(* the Log Router setup_resource_logging() of karppipeline/logging.py.     *)
(*                                                                         *)
(* Two specifications share the state:                                     *)
(*   Spec        one invocation of the console command (cli());            *)
(*   SpecRouter  the public functions of karppipeline.logging driven by    *)
(*               an arbitrary client (setup_resource_logging, and records  *)
(*               logged through the "karppipeline" logger).                *)
(***************************************************************************)
EXTENDS Integers, Sequences, FiniteSets, TLC

\* Bounds of the model.
MaxResources == 2      \* most resources find_configs() returns
MaxCalls == 3          \* most calls a client of karppipeline.logging makes

(***************************************************************************)
(* Names.  Resource k (its position in discovery order) has a working      *)
(* directory (ConfigHandle.workdir) and, once loaded, a resource           *)
(* identifier (config.resource_id); the two are different strings.         *)
(***************************************************************************)
WorkdirName == <<"dirA", "dirB", "dirC", "dirD">>
ResourceIdName == <<"A", "B", "C", "D">>

Workdirs == {WorkdirName[k] : k \in 1..MaxResources}

Commands == {"clean", "run", "install"}
CompactArgs == {"default", "no_compact", "compact"}
LogLevelChoices == {"DEBUG", "INFO", "WARNING", "ERROR"}
\* what load_config / run / install do for a resource when they are called
Fates == {"ok", "load_error", "domain", "unexpected"}
LoggerNames == {"karppipeline", "karppipeline.cli"}

VARIABLES
  command,        \* args.command
  arg_compact,    \* args.compact_output
  json_output,    \* args.json_output
  log_level,      \* args.log_level
  configs,        \* find_configs(): resource positions in discovery order
  fate,           \* outcome of the external calls, per resource
  unwritable,     \* working directories whose log directory cannot be created
  pc,             \* position of the invocation / "api" for a library client
  compact_output, \* cli(): the resolved output mode
  idx,            \* cli(): position of the next resource of the for loop
  exit_code,      \* process exit status (-1 while running)
  exception,      \* the exception that ended the invocation, "" if none
  handlers,       \* logger.handlers of the "karppipeline" logger
  level,          \* logger.level of the "karppipeline" logger (0 = NOTSET)
  held,           \* run.log files opened by a FileHandler, in opening order
  released,       \* positions of held whose file has been closed since
  log_dir,        \* working directories whose log directory exists
  out_dir,        \* working directories whose output directory exists
  run_log,        \* per working directory, the lines of <workdir>/log/run.log
  stdout,         \* lines written to standard output
  stderr,         \* lines written to standard error
  clock,          \* reading of datetime.now() / record.created
  calls,          \* number of calls the library client has made
  last_call       \* the last setup_resource_logging call and how it ended

vars == <<command, arg_compact, json_output, log_level, configs, fate,
          unwritable, pc, compact_output, idx, exit_code, exception,
          handlers, level, held, released, log_dir, out_dir, run_log, stdout,
          stderr, clock, calls, last_call>>

inputs == <<command, arg_compact, json_output, log_level, configs, fate,
            unwritable>>


(***************************************************************************)
(* Output lines.  A line of standard output, standard error or run.log.    *)
(* A JSON line carries the keys of its payload and the field values.       *)
(***************************************************************************)
Line(kind, text) ==
  [kind |-> kind, text |-> text, keys |-> {}, level |-> "", logger |-> "",
   timestamp |-> ""]

\* logging.py: format(date), date.strftime("%Y-%m-%d %H:%M:%S,%f")
format(date) == "T" \o ToString(date)

\* numeric value of the level names of Python's logging module
LevelNo(name) ==
  CASE name = "DEBUG" -> 10
    [] name = "INFO" -> 20
    [] name = "WARNING" -> 30
    [] name = "ERROR" -> 40
    [] OTHER -> 0

\* a LogRecord: logger name, level name, message, exc_info, creation time
LogRecord(name, levelname, msg, exc_info, created) ==
  [name |-> name, levelname |-> levelname, msg |-> msg, exc_info |-> exc_info,
   created |-> created]

\* mutant: the payload without the logger name
JsonFormatter_format_NoLogger(record) ==
  [kind |-> "json", text |-> record.msg,
   keys |-> {"timestamp", "level", "message"}
            \cup (IF record.exc_info THEN {"exc_info"} ELSE {}),
   level |-> record.levelname, logger |-> "",
   timestamp |-> format(record.created)]

\* JsonFormatter.format: the payload that json.dumps renders on one line
JsonFormatter_format(record) ==
  [kind |-> "json", text |-> record.msg,
   keys |-> {"timestamp", "level", "logger", "message"}
            \cup (IF record.exc_info THEN {"exc_info"} ELSE {}),
   level |-> record.levelname, logger |-> record.name,
   timestamp |-> format(record.created)]

\* mutant: a formatter "%(asctime)s %(levelname)s %(message)s"
DefaultFormatter_format_Stamped(record) ==
  <<[Line("text", format(record.created) \o " " \o record.levelname \o " "
                  \o record.msg)
       EXCEPT !.timestamp = format(record.created), !.level = record.levelname]>>
  \o (IF record.exc_info THEN <<Line("trace", "Traceback")>> ELSE <<>>)

\* a handler without a formatter uses logging's default "%(message)s": the
\* message, followed by the rendered trace on further lines when the record
\* carries exc_info
DefaultFormatter_format(record) ==
  <<Line("text", record.msg)>>
  \o (IF record.exc_info THEN <<Line("trace", "Traceback")>> ELSE <<>>)

\* the lines a handler writes for one record
HandlerFormat(h, record) ==
  IF h.json THEN <<JsonFormatter_format(record)>>
  ELSE DefaultFormatter_format(record)

(***************************************************************************)
(* The state the Log Router works on, as one record, so that the calls of  *)
(* one loop iteration compose.                                             *)
(***************************************************************************)
World ==
  [handlers |-> handlers, level |-> level, held |-> held, log_dir |-> log_dir,
   run_log |-> run_log, stdout |-> stdout, stderr |-> stderr, clock |-> clock]

SetWorld(w) ==
  /\ handlers' = w.handlers
  /\ level' = w.level
  /\ held' = w.held
  /\ log_dir' = w.log_dir
  /\ run_log' = w.run_log
  /\ stdout' = w.stdout
  /\ stderr' = w.stderr
  /\ clock' = w.clock

\* write lines to the sink of a handler: sys.stdout or the handler's run.log
WriteSink(w, sink, lines) ==
  IF sink = "stdout" THEN [w EXCEPT !.stdout = @ \o lines]
  ELSE [w EXCEPT !.run_log[sink] = @ \o lines]

\* Logger.callHandlers: every handler of the "karppipeline" logger, in order
RECURSIVE CallHandlers(_, _, _)
CallHandlers(w, hs, record) ==
  IF hs = <<>> THEN w
  ELSE CallHandlers(WriteSink(w, Head(hs).sink, HandlerFormat(Head(hs), record)),
                    Tail(hs), record)

\* the level a record is compared with: the logger's own level, or the root
\* logger's WARNING while the level is NOTSET
EffectiveLevel(w) == IF w.level = 0 THEN LevelNo("WARNING") ELSE w.level

\* logger.log(level, msg, exc_info) on the "karppipeline" logger or a child
\* of it (children have no handlers and no level of their own)
Emit(w, name, levelname, msg, exc_info) ==
  LET record == LogRecord(name, levelname, msg, exc_info, w.clock)
      t == [w EXCEPT !.clock = @ + 1]
  IN IF LevelNo(levelname) < EffectiveLevel(w) THEN t
     ELSE IF w.handlers = <<>>
       THEN \* logging.lastResort: WARNING and above go to standard error
            IF LevelNo(levelname) >= LevelNo("WARNING")
              THEN [t EXCEPT !.stderr = @ \o DefaultFormatter_format(record)]
              ELSE t
       ELSE CallHandlers(t, w.handlers, record)

(***************************************************************************)
(* setup_resource_logging(path, compact_output, json_output)               *)
(***************************************************************************)
\* mutant: the earlier handlers stay attached
HandlersClear_Keep(hs) == hs

\* logger.handlers.clear(): detaches the handlers (it does not close them)
HandlersClear(hs) == <<>>

\* mutant: the file opened with "w"
OpenAppendWrite_Truncate(content, lines) == lines

\* open(log_file, "a") followed by two writes: the header goes after the
\* content the file already has
OpenAppendWrite(content, lines) == content \o lines

\* the header written before the handler is created
RunHeader(now) ==
  <<Line("separator", "-------------------------------"),
    Line("stamp", "pipeline run, " \o format(now))>>

\* create_log_dir(path) of karppipeline.common: the log directory under the
\* working directory, created if absent; it fails where it cannot be created
create_log_dir_fails(path) == path \in unwritable

NoCall ==
  [path |-> "", compact |-> FALSE, json |-> FALSE, result |-> "none", born |-> 0]

\* mutant: the log directory and the header are made before the mode is looked at
setup_resource_logging_AlwaysHeader(w, path, compact, json) ==
  LET cleared == [w EXCEPT !.handlers = HandlersClear(w.handlers),
                           !.level = LevelNo("INFO"),
                           !.clock = @ + 1]
      handler == [sink |-> IF compact THEN path ELSE "stdout", json |-> json,
                  born |-> w.clock]
      headed == [cleared EXCEPT
                   !.log_dir = @ \cup {path},
                   !.run_log[path] = OpenAppendWrite(@, RunHeader(w.clock))]
  IN IF create_log_dir_fails(path)
       THEN [world |-> cleared, raised |-> "LogSinkError"]
     ELSE IF compact
       THEN [world |-> [headed EXCEPT !.held = Append(@, path),
                                      !.handlers = Append(@, handler)],
             raised |-> ""]
     ELSE [world |-> [headed EXCEPT !.handlers = Append(@, handler)],
           raised |-> ""]

\* the result: the new state and the exception raised ("" when it returns)
setup_resource_logging(w, path, compact, json) ==
  LET cleared == [w EXCEPT !.handlers = HandlersClear(w.handlers),
                           !.level = LevelNo("INFO"),
                           !.clock = @ + 1]
      handler == [sink |-> IF compact THEN path ELSE "stdout", json |-> json,
                  born |-> w.clock]
  IN IF compact /\ create_log_dir_fails(path)
       THEN [world |-> cleared, raised |-> "LogSinkError"]
     ELSE IF compact
       THEN [world |->
               [cleared EXCEPT
                  !.log_dir = @ \cup {path},
                  !.run_log[path] = OpenAppendWrite(@, RunHeader(w.clock)),
                  !.held = Append(@, path),
                  !.handlers = Append(@, handler)],
             raised |-> ""]
     ELSE [world |-> [cleared EXCEPT !.handlers = Append(@, handler)],
           raised |-> ""]

CallRecord(w, path, compact, json, raised) ==
  [path |-> path, compact |-> compact, json |-> json,
   result |-> IF raised = "" THEN "returned" ELSE raised, born |-> w.clock]


(***************************************************************************)
(* cli(): the console command                                              *)
(***************************************************************************)
print_line(w, text) == [w EXCEPT !.stdout = @ \o <<Line("print", text)>>]

\* green_box() / red_box() of karppipeline.util.terminal
green_box == "[green]"
red_box == "[red]"

\* the f-string of cli.py 164 and 171
StatusText(marker, name, word) == marker \o " " \o name \o "\t " \o word

\* mutant: compact by default as soon as there is one resource
ResolveCompact_AtLeastOne(arg, n) ==
  IF arg = "default"
    THEN (IF n >= 1 THEN TRUE ELSE FALSE)
    ELSE arg = "compact"

\* cli.py 135-140: the output mode from --compact / --no-compact and the
\* number of discovered resources
ResolveCompact(arg, n) ==
  IF arg = "default"
    THEN (IF n > 1 THEN TRUE ELSE FALSE)
    ELSE arg = "compact"

\* def setup_resource_logging(path, compact_output=False, json_output=False)
SetupParameters == <<"path", "compact_output", "json_output">>
SetupRequired == {"path"}
\* the call of cli.py 142-144: two positional arguments (config_handle.workdir,
\* args.log_level) and two keyword arguments
CallPositionalArgs == <<"config_handle.workdir", "args.log_level">>
CallKeywordArgs == {"compact_output", "json_output"}

\* Python's binding of the arguments of a call to the parameters of a function:
\* no more positional arguments than parameters, every keyword names a
\* parameter, no parameter receives a value both by position and by keyword,
\* every parameter without a default receives a value
ArgumentsBind(params, required, positional, keywords) ==
  /\ Len(positional) <= Len(params)
  /\ \A kw \in keywords : \E i \in 1..Len(params) : params[i] = kw
  /\ \A i \in 1..Len(params) : ~(i <= Len(positional) /\ params[i] \in keywords)
  /\ \A i \in 1..Len(params) :
       params[i] \in required => (i <= Len(positional) \/ params[i] \in keywords)

CallBinds ==
  ArgumentsBind(SetupParameters, SetupRequired, CallPositionalArgs, CallKeywordArgs)

\* e.args[0] of the InstallException / ImportException of resource r
FailureMessage(r) == "failure of " \o ResourceIdName[r]

\* run(config) / install(config): the operation logs through the package logger
Operation(w, r) ==
  Emit(w, "karppipeline", "INFO", "operation on " \o ResourceIdName[r], FALSE)

\* cli.py 165-171: the except clause, for the failure f of resource r
ExceptBlock(w, r, f) ==
  LET logged ==
        IF f = "domain"
          THEN Emit(w, "karppipeline", "ERROR",
                    "Exception for resource: " \o FailureMessage(r), FALSE)
          ELSE Emit(w, "karppipeline", "ERROR", "Exception for resource", TRUE)
  IN IF compact_output
       THEN print_line(logged, StatusText(red_box, WorkdirName[r], "fail"))
       ELSE logged

\* cli.py 150-155
TaskOutput ==
  IF command = "run" THEN "Running "
  ELSE IF command = "install" THEN "Installing "
  ELSE "Unknown action"

\* cli.py 146-164: the try block, for resource r
TryBlock(w, r) ==
  IF fate[r] = "load_error" THEN ExceptBlock(w, r, fate[r])
  ELSE LET announced ==
             IF ~compact_output
               THEN Emit(w, "karppipeline.cli", "INFO",
                         TaskOutput \o ResourceIdName[r], FALSE)
               ELSE w
       IN IF fate[r] = "ok"
            THEN LET ran == Operation(announced, r)
                 IN IF compact_output
                      THEN print_line(ran, StatusText(green_box, ResourceIdName[r], "success"))
                      ELSE ran
            ELSE ExceptBlock(announced, r, fate[r])

\* clean(configs): remove the log and output directory of every resource
RECURSIVE CleanFrom(_, _, _)
CleanFrom(w, outs, k) ==
  IF k > Len(configs) THEN [world |-> w, outs |-> outs]
  ELSE LET d == WorkdirName[configs[k]]
           w1 == IF d \in w.log_dir
                   THEN [print_line(w, "Remove " \o d \o "/log")
                           EXCEPT !.log_dir = @ \ {d}, !.run_log[d] = <<>>]
                   ELSE w
           w2 == IF d \in outs THEN print_line(w1, "Remove " \o d \o "/output") ELSE w1
       IN CleanFrom(w2, outs \ {d}, k + 1)

Init ==
  /\ command \in Commands
  /\ arg_compact \in (IF command = "clean" THEN {"default"} ELSE CompactArgs)
  /\ json_output \in (IF command = "clean" THEN {FALSE} ELSE BOOLEAN)
  /\ log_level \in (IF command = "clean" THEN {"INFO"} ELSE LogLevelChoices)
  /\ \E n \in 0..MaxResources :
       /\ configs = [k \in 1..n |-> k]
       /\ fate \in [1..n -> IF command = "clean" THEN {"ok"} ELSE Fates]
       /\ unwritable \in (IF command = "clean" THEN {{}}
                          ELSE SUBSET {WorkdirName[k] : k \in 1..n})
       /\ log_dir \in SUBSET {WorkdirName[k] : k \in 1..n}
       /\ out_dir \in (IF command = "clean"
                         THEN SUBSET {WorkdirName[k] : k \in 1..n} ELSE {{}})
  /\ run_log = [d \in Workdirs |-> IF d \in log_dir THEN RunHeader(0) ELSE <<>>]
  /\ pc = "start"
  /\ compact_output = FALSE
  /\ idx = 1
  /\ exit_code = -1
  /\ exception = ""
  /\ handlers = <<>>
  /\ level = 0
  /\ held = <<>>
  /\ released = {}
  /\ stdout = <<>>
  /\ stderr = <<>>
  /\ clock = 1
  /\ calls = 0
  /\ last_call = NoCall

\* cli.py 124-126
Clean ==
  /\ pc = "start"
  /\ command = "clean"
  /\ LET r == CleanFrom(World, out_dir, 1)
     IN SetWorld(r.world) /\ out_dir' = r.outs
  /\ pc' = "returned"
  /\ exit_code' = 0
  /\ UNCHANGED <<inputs, compact_output, idx, exception, released, calls,
                 last_call>>

\* cli.py 128-140
ResolveMode ==
  /\ pc = "start"
  /\ command # "clean"
  /\ compact_output' = ResolveCompact(arg_compact, Len(configs))
  /\ pc' = "loop"
  /\ UNCHANGED <<inputs, idx, exit_code, exception, handlers, level, held,
                 log_dir, out_dir, released, run_log, stdout, stderr, clock, calls,
                 last_call>>

\* cli.py 141-171: one iteration of the for loop.  The call of
\* setup_resource_logging is outside the try block: an exception of the call
\* (its arguments failing to bind, the log directory failing to be created)
\* leaves cli() and ends the process with a traceback and exit status 1.
Iteration ==
  /\ pc = "loop"
  /\ idx <= Len(configs)
  /\ LET r == configs[idx]
         d == WorkdirName[r]
     IN IF ~CallBinds
          THEN /\ pc' = "raised"
               /\ exception' = "TypeError"
               /\ exit_code' = 1
               /\ stderr' = stderr \o <<Line("trace", "Traceback")>>
               /\ UNCHANGED <<idx, handlers, level, held, log_dir, run_log,
                              stdout, clock, last_call>>
          ELSE LET s == setup_resource_logging(World, d, compact_output, json_output)
               IN /\ last_call' = CallRecord(World, d, compact_output, json_output,
                                             s.raised)
                  /\ IF s.raised # ""
                       THEN /\ pc' = "raised"
                            /\ exception' = s.raised
                            /\ exit_code' = 1
                            /\ SetWorld([s.world EXCEPT
                                 !.stderr = @ \o <<Line("trace", "Traceback")>>])
                            /\ UNCHANGED idx
                       ELSE /\ SetWorld(TryBlock(s.world, r))
                            /\ idx' = idx + 1
                            /\ UNCHANGED <<pc, exception, exit_code>>
  /\ UNCHANGED <<inputs, compact_output, out_dir, released, calls>>

\* cli.py 173
Return ==
  /\ pc = "loop"
  /\ idx > Len(configs)
  /\ pc' = "returned"
  /\ exit_code' = 0
  /\ UNCHANGED <<inputs, compact_output, idx, exception, handlers, level, held,
                 log_dir, out_dir, released, run_log, stdout, stderr, clock, calls,
                 last_call>>

Next == Clean \/ ResolveMode \/ Iteration \/ Return

Spec == Init /\ [][Next]_vars

(***************************************************************************)
(* karppipeline.logging used as a library                                  *)
(***************************************************************************)
InitRouter ==
  /\ command = "run"
  /\ arg_compact = "default"
  /\ json_output = FALSE
  /\ log_level = "INFO"
  /\ configs = <<>>
  /\ fate = <<>>
  /\ unwritable \in SUBSET Workdirs
  /\ log_dir = {}
  /\ out_dir = {}
  /\ run_log = [d \in Workdirs |-> <<>>]
  /\ pc = "api"
  /\ compact_output = FALSE
  /\ idx = 1
  /\ exit_code = -1
  /\ exception = ""
  /\ handlers = <<>>
  /\ level = 0
  /\ held = <<>>
  /\ released = {}
  /\ stdout = <<>>
  /\ stderr = <<>>
  /\ clock = 1
  /\ calls = 0
  /\ last_call = NoCall

\* a client calls setup_resource_logging(path, compact_output, json_output)
ApiSetup ==
  /\ pc = "api"
  /\ calls < MaxCalls
  /\ \E path \in Workdirs, compact \in BOOLEAN, json \in BOOLEAN :
       LET s == setup_resource_logging(World, path, compact, json)
       IN /\ SetWorld(s.world)
          /\ last_call' = CallRecord(World, path, compact, json, s.raised)
  /\ calls' = calls + 1
  /\ UNCHANGED <<inputs, pc, compact_output, idx, exit_code, exception, out_dir, released>>

\* a client logs a record through get_logger() or a child logger
ApiLog ==
  /\ pc = "api"
  /\ calls < MaxCalls
  /\ \E name \in LoggerNames, levelname \in LogLevelChoices, exc_info \in BOOLEAN :
       SetWorld(Emit(World, name, levelname, "record " \o format(clock), exc_info))
  /\ calls' = calls + 1
  /\ UNCHANGED <<inputs, pc, compact_output, idx, exit_code, exception, out_dir, released,
                 last_call>>

\* the FileHandler opened at position i of held is the one attached to the logger
Attached(i) ==
  /\ i = Len(held)
  /\ handlers # <<>>
  /\ handlers[Len(handlers)].sink = held[i]

OpenHandles == {i \in 1..Len(held) : i \notin released}

\* setup_resource_logging never calls close() on a handler it detaches: the
\* file of a detached FileHandler is closed when the interpreter finalizes
\* the handler object, immediately under reference counting, at some later
\* collection or never under another memory manager
Finalize ==
  /\ pc = "api"
  /\ \E i \in OpenHandles :
       /\ ~Attached(i)
       /\ released' = released \cup {i}
  /\ UNCHANGED <<inputs, pc, compact_output, idx, exit_code, exception,
                 handlers, level, held, log_dir, out_dir, run_log, stdout,
                 stderr, clock, calls, last_call>>

NextRouter == ApiSetup \/ ApiLog \/ Finalize

SpecRouter == InitRouter /\ [][NextRouter]_vars


(***************************************************************************)
(* Vocabulary of the properties                                            *)
(***************************************************************************)
Terminated == pc \in {"returned", "raised"}
Dispatching == command \in {"run", "install"}

ResourceNames ==
  {WorkdirName[k] : k \in 1..Len(WorkdirName)}
  \cup {ResourceIdName[k] : k \in 1..Len(ResourceIdName)}

IsSuccessLine(l) ==
  \E name \in ResourceNames : l = Line("print", StatusText(green_box, name, "success"))
IsFailLine(l) ==
  \E name \in ResourceNames : l = Line("print", StatusText(red_box, name, "fail"))
IsStatusLine(l) == IsSuccessLine(l) \/ IsFailLine(l)

StatusLines == SelectSeq(stdout, IsStatusLine)
SuccessLines == SelectSeq(stdout, IsSuccessLine)
FailLines == SelectSeq(stdout, IsFailLine)

Succeeding == {k \in 1..Len(configs) : fate[k] = "ok"}
Failing == {k \in 1..Len(configs) : fate[k] # "ok"}

\* the lines a step appended to a stream
Appended(old, new) == SubSeq(new, Len(old) + 1, Len(new))
IsPrefix(old, new) ==
  Len(old) <= Len(new) /\ SubSeq(new, 1, Len(old)) = old

\* the error record the dispatcher logs for the failure of resource k
IsErrorRecordOf(l, k) ==
  /\ l.kind \in {"text", "json"}
  /\ IF fate[k] = "domain"
       THEN l.text = "Exception for resource: " \o FailureMessage(k)
       ELSE l.text = "Exception for resource"

AllSinkLines ==
  {stdout[i] : i \in 1..Len(stdout)}
  \cup UNION {{run_log[d][i] : i \in 1..Len(run_log[d])} : d \in Workdirs}

(***************************************************************************)
(* C1.  Failure isolation: a run/install batch that is not stopped by a    *)
(* failure of the log directory processes all N resources, whatever the    *)
(* outcome of each, and (compact mode) reports as many successes and       *)
(* failures as there are succeeding and failing resources.                 *)
(* Stated on the final state of the invocation.                            *)
(***************************************************************************)
C1_FailureIsolation ==
  (Terminated /\ Dispatching /\ exception # "LogSinkError") =>
     /\ idx = Len(configs) + 1
     /\ compact_output =>
          /\ Len(SuccessLines) = Cardinality(Succeeding)
          /\ Len(FailLines) = Cardinality(Failing)

(***************************************************************************)
(* C2.  Only a failure to create the log directory (LogSinkError) ends the *)
(* batch early; no other failure leaves the dispatch loop.  When the batch *)
(* is ended, it is at the resource whose log directory cannot be created,  *)
(* and no later resource has been configured or given a status line.       *)
(***************************************************************************)
C2_OnlyLogSinkErrorAborts ==
  (Dispatching /\ pc = "raised") =>
     /\ exception = "LogSinkError"
     /\ compact_output
     /\ WorkdirName[configs[idx]] \in unwritable
     /\ Len(StatusLines) = idx - 1

(***************************************************************************)
(* C3.  Output mode resolution: without a flag the mode is compact exactly *)
(* when more than one resource was discovered; --compact gives compact and *)
(* --no-compact gives verbose for every number of resources.               *)
(***************************************************************************)
C3_ModeResolution ==
  (Dispatching /\ pc # "start") =>
     /\ arg_compact = "default" => (compact_output <=> Len(configs) > 1)
     /\ arg_compact = "compact" => compact_output
     /\ arg_compact = "no_compact" => ~compact_output

C3_Witness ==
  /\ pc = "loop"
  /\ arg_compact = "default"
  /\ Len(configs) > 1
  /\ compact_output

(***************************************************************************)
(* C4.  The exit code of a finished run or install invocation is 0.        *)
(***************************************************************************)
C4_ExitCodeZero ==
  (Terminated /\ Dispatching) => exit_code = 0


(***************************************************************************)
(* C5.  Log Router replacement: the "karppipeline" logger never has more   *)
(* than one handler; after a setup_resource_logging call that returned it  *)
(* has exactly one, the handler that call created; and whatever is written *)
(* to a run.log or to standard output is written to the sink of the most   *)
(* recent configuration only, never to an earlier one.                     *)
(***************************************************************************)
HandlerOf(call) ==
  [sink |-> IF call.compact THEN call.path ELSE "stdout", json |-> call.json,
   born |-> call.born]

C5_OneHandler ==
  /\ Len(handlers) <= 1
  /\ last_call.result = "returned" => handlers = <<HandlerOf(last_call)>>

C5_OnlyCurrentSink ==
  /\ \A d \in Workdirs :
       run_log'[d] # run_log[d] =>
         /\ last_call'.result = "returned"
         /\ last_call'.compact
         /\ last_call'.path = d
  /\ stdout' # stdout =>
       /\ last_call'.result = "returned"
       /\ ~last_call'.compact

C5_LogRouterReplacement == [](C5_OneHandler) /\ [][C5_OnlyCurrentSink]_vars

\* dirA was configured first, dirB second, and a record logged after that is
\* in dirB's run.log while dirA's has its header only
C5_Witness ==
  /\ pc = "api"
  /\ last_call.result = "returned"
  /\ last_call.compact
  /\ last_call.path = "dirB"
  /\ Len(run_log["dirA"]) = 2
  /\ Len(run_log["dirB"]) > 2

(***************************************************************************)
(* C6.  Compact-mode status lines: one status line per resource, in        *)
(* discovery order, emitted before the loop moves to the next resource;    *)
(* the line of resource k says success exactly when k's load and operation *)
(* succeeded.  No status line in verbose mode.                             *)
(***************************************************************************)
C6_StatusLines ==
  Dispatching =>
     /\ (pc = "loop" /\ compact_output) => Len(StatusLines) = idx - 1
     /\ (Terminated /\ compact_output /\ exception # "LogSinkError") =>
          /\ Len(StatusLines) = Len(configs)
          /\ \A k \in 1..Len(configs) :
               IsSuccessLine(StatusLines[k]) <=> fate[k] = "ok"
     /\ ~compact_output => StatusLines = <<>>

(***************************************************************************)
(* C7.  Failure classification: every resource whose load or operation     *)
(* fails gets exactly one error record, carrying a trace exactly when the  *)
(* failure is not a domain failure, and is marked failed.                  *)
(***************************************************************************)
IsErrorLine(l) ==
  /\ l.kind \in {"text", "json"}
  /\ \/ l.text = "Exception for resource"
     \/ \E k \in 1..Len(ResourceIdName) :
          l.text = "Exception for resource: " \o FailureMessage(k)
CarriesTrace(l) == l.kind = "trace" \/ (l.kind = "json" /\ "exc_info" \in l.keys)

RECURSIVE CountIn(_, _, _)
\* the number of lines of kind-test "which" in the run.log files of the set S
CountIn(S, which, acc) ==
  IF S = {} THEN acc
  ELSE LET d == CHOOSE x \in S : TRUE
           n == IF which = "error"
                  THEN Len(SelectSeq(run_log[d], IsErrorLine))
                  ELSE Len(SelectSeq(run_log[d], CarriesTrace))
       IN CountIn(S \ {d}, which, acc + n)

ErrorRecordCount ==
  Len(SelectSeq(stdout, IsErrorLine)) + CountIn(Workdirs, "error", 0)
TraceCount ==
  Len(SelectSeq(stdout, CarriesTrace)) + CountIn(Workdirs, "trace", 0)

C7_FailureClassification ==
  (Terminated /\ Dispatching /\ exception # "LogSinkError") =>
     /\ ErrorRecordCount = Cardinality(Failing)
     /\ TraceCount = Cardinality({k \in Failing : fate[k] # "domain"})
     /\ compact_output => Len(FailLines) = Cardinality(Failing)

(***************************************************************************)
(* C8.  Per-resource log routing: in compact mode the records of resource  *)
(* k (the error record of its failure included) are in k's own run.log,    *)
(* standard output holds status lines only and no run.log holds a status   *)
(* line; in verbose mode the records are on standard output.               *)
(***************************************************************************)
SinkOf(k) == IF compact_output THEN run_log[WorkdirName[configs[k]]] ELSE stdout

C8_PerResourceRouting ==
  (Terminated /\ Dispatching /\ exception # "LogSinkError") =>
     /\ \A k \in Failing :
          \E i \in 1..Len(SinkOf(k)) : IsErrorRecordOf(SinkOf(k)[i], k)
     /\ compact_output =>
          /\ \A i \in 1..Len(stdout) : IsStatusLine(stdout[i])
          /\ \A k \in Failing : \A d \in Workdirs \ {WorkdirName[configs[k]]} :
               \A i \in 1..Len(run_log[d]) : ~IsErrorRecordOf(run_log[d][i], k)
     /\ \A d \in Workdirs : \A i \in 1..Len(run_log[d]) : ~IsStatusLine(run_log[d][i])

(***************************************************************************)
(* C9.  Append-only run log: a compact-mode configuration of a working     *)
(* directory appends exactly the separator line and the timestamp line to  *)
(* the end of its run.log; no step removes or changes a line already in a  *)
(* run.log; so a run.log holds as many header blocks as compact-mode       *)
(* configurations were made for its directory, the first block at the top. *)
(***************************************************************************)
BlockCount(f) ==
  Cardinality({i \in 1..(Len(f) - 1) :
                 f[i].kind = "separator" /\ f[i + 1].kind = "stamp"})
Configurations(d) == Cardinality({i \in 1..Len(held) : held[i] = d})

C9_Blocks ==
  \A d \in Workdirs :
     /\ BlockCount(run_log[d]) = Configurations(d)
     /\ run_log[d] # <<>> => run_log[d][1].kind = "separator"

C9_Append ==
  \A d \in Workdirs :
     /\ IsPrefix(run_log[d], run_log'[d])
     /\ (last_call' # last_call /\ last_call'.result = "returned"
         /\ last_call'.compact /\ last_call'.path = d) =>
           Appended(run_log[d], run_log'[d]) = RunHeader(clock)

C9_AppendOnlyRunLog == [](C9_Blocks) /\ [][C9_Append]_vars

\* two configurations of dirA with a record of the first run between the blocks
C9_Witness ==
  /\ pc = "api"
  /\ Len(run_log["dirA"]) = 5
  /\ BlockCount(run_log["dirA"]) = 2
  /\ run_log["dirA"][3].kind \in {"text", "json"}

(***************************************************************************)
(* C10.  JSON-mode output.  As claimed: while json output is selected,     *)
(* every line that reaches the configured sink is a structured record with *)
(* the keys timestamp, level, logger and message.                          *)
(***************************************************************************)
IsStructured(l) ==
  l.kind = "json" /\ {"timestamp", "level", "logger", "message"} \subseteq l.keys

\* the lines a step wrote to the sink of the configuration in force after it
WrittenToSink ==
  IF last_call'.compact
    THEN Appended(run_log[last_call'.path], run_log'[last_call'.path])
    ELSE Appended(stdout, stdout')

C10_EveryLineStructured ==
  [][(last_call'.result = "returned" /\ last_call'.json) =>
       \A i \in 1..Len(WrittenToSink) : IsStructured(WrittenToSink[i])]_vars

(***************************************************************************)
(* C10, amended.  While json output is selected, every log record written  *)
(* to the configured sink is one structured line with the keys timestamp,  *)
(* level, logger and message; the two header lines that a compact-mode     *)
(* configuration writes to run.log are plain text.                         *)
(***************************************************************************)
C10_EveryRecordStructured ==
  [][(last_call'.result = "returned" /\ last_call'.json) =>
       IF last_call' = last_call
         THEN /\ Len(WrittenToSink) <= 1
              /\ \A i \in 1..Len(WrittenToSink) : IsStructured(WrittenToSink[i])
         ELSE WrittenToSink = (IF last_call'.compact THEN RunHeader(clock) ELSE <<>>)
    ]_vars

\* a record with exc_info was written as a JSON line to a run.log
C10_Witness ==
  /\ pc = "api"
  /\ last_call.result = "returned" /\ last_call.json /\ last_call.compact
  /\ \E i \in 1..Len(run_log[last_call.path]) :
       /\ IsStructured(run_log[last_call.path][i])
       /\ "exc_info" \in run_log[last_call.path][i].keys


(***************************************************************************)
(* C11.  Severity filtering: once a run/install batch has configured the   *)
(* Log Router, a record of severity S reaches the sink exactly when S is   *)
(* at least the threshold chosen with --log-level.                         *)
(***************************************************************************)
PassesFilter(severity) == LevelNo(severity) >= EffectiveLevel(World)

C11_SeverityFiltering ==
  (Terminated /\ Dispatching /\ Len(configs) >= 1 /\ exception # "LogSinkError") =>
     /\ handlers # <<>>
     /\ \A severity \in LogLevelChoices :
          PassesFilter(severity) <=> LevelNo(severity) >= LevelNo(log_level)

(***************************************************************************)
(* C12.  Status line content: in compact mode the status line of resource  *)
(* k is "<marker> <resource_id> <success|fail>", naming k by its resource  *)
(* identifier, with the success marker and word when k succeeded and the   *)
(* fail marker and word when its load or its operation failed.             *)
(***************************************************************************)
ExpectedStatusLine(k) ==
  IF fate[k] = "ok"
    THEN Line("print", StatusText(green_box, ResourceIdName[configs[k]], "success"))
    ELSE Line("print", StatusText(red_box, ResourceIdName[configs[k]], "fail"))

C12_StatusLineContent ==
  (Terminated /\ Dispatching /\ compact_output /\ exception # "LogSinkError") =>
     /\ Len(StatusLines) = Len(configs)
     /\ \A k \in 1..Len(configs) : StatusLines[k] = ExpectedStatusLine(k)

(***************************************************************************)
(* C13.  Verbose announcement: in verbose mode every resource whose        *)
(* configuration loads has the record "Running <resource_id>" (or          *)
(* "Installing <resource_id>") on standard output, before every record of  *)
(* its operation; in compact mode there is no such record anywhere.        *)
(***************************************************************************)
IsAnnouncement(l, k) ==
  l.kind \in {"text", "json"} /\ l.text = TaskOutput \o ResourceIdName[configs[k]]
IsOperationRecord(l, k) ==
  l.kind \in {"text", "json"} /\ l.text = "operation on " \o ResourceIdName[configs[k]]

C13_VerboseAnnouncement ==
  (Terminated /\ Dispatching /\ exception # "LogSinkError") =>
     /\ ~compact_output =>
          \A k \in 1..Len(configs) :
             fate[k] # "load_error" =>
               \E i \in 1..Len(stdout) :
                  /\ IsAnnouncement(stdout[i], k)
                  /\ \A j \in 1..Len(stdout) : IsOperationRecord(stdout[j], k) => i < j
     /\ compact_output =>
          \A k \in 1..Len(configs) : \A l \in AllSinkLines : ~IsAnnouncement(l, k)

(***************************************************************************)
(* C14.  Per-resource state machine: the resources are taken in discovery  *)
(* order, one at a time, each loaded once and (only if the load succeeded) *)
(* executed once; when the batch ends every resource is in a terminal      *)
(* state: load_failed, succeeded or exec_failed.                           *)
(***************************************************************************)
\* the resources before idx have been through the loop body once, the others
\* have not been started
ResourceState(k) ==
  IF k >= idx THEN "pending"
  ELSE IF fate[k] = "load_error" THEN "load_failed"
  ELSE IF fate[k] = "ok" THEN "succeeded"
  ELSE "exec_failed"

C14_ResourceStateMachine ==
  Dispatching =>
     /\ \A k \in 1..Len(configs) : \A j \in 1..Len(configs) :
          (j < k /\ ResourceState(k) # "pending") => ResourceState(j) # "pending"
     /\ (Terminated /\ exception # "LogSinkError") =>
          \A k \in 1..Len(configs) :
             ResourceState(k) \in {"load_failed", "succeeded", "exec_failed"}

(***************************************************************************)
(* C16.  Uniform mode across the batch: the Log Router is configured for   *)
(* the resources of a batch with the compact/verbose mode resolved before  *)
(* the loop, the text/json format and the severity threshold of the        *)
(* invocation.                                                             *)
(***************************************************************************)
C16_UniformMode ==
  (Terminated /\ Dispatching /\ Len(configs) >= 1 /\ exception # "LogSinkError") =>
     /\ last_call.result = "returned"
     /\ last_call.compact = compact_output
     /\ last_call.json = json_output
     /\ level = LevelNo(log_level)


TextRecordStep ==
  /\ last_call' = last_call
  /\ last_call.result = "returned"
  /\ ~last_call.json

C17_TextLineStamped ==
  [][TextRecordStep =>
       \A i \in 1..Len(WrittenToSink) :
          WrittenToSink[i].timestamp # "" /\ WrittenToSink[i].level # ""]_vars

(***************************************************************************)
(* C17, amended.  When json output is not selected, a log record is        *)
(* rendered on the sink as its message alone, with neither timestamp nor   *)
(* level, followed by the trace when the record carries exc_info.          *)
(***************************************************************************)
C17_TextLineMessageOnly ==
  [][TextRecordStep =>
       \/ WrittenToSink = <<>>
       \/ WrittenToSink = <<Line("text", "record " \o format(clock))>>
       \/ WrittenToSink = <<Line("text", "record " \o format(clock)),
                            Line("trace", "Traceback")>>]_vars

\* a record was written in text form to standard output
C17_Witness ==
  /\ pc = "api"
  /\ last_call.result = "returned" /\ ~last_call.json /\ ~last_call.compact
  /\ \E i \in 1..Len(stdout) : stdout[i].kind = "text"

(***************************************************************************)
(* C18.  Frame of a verbose configuration: a setup_resource_logging call   *)
(* in verbose mode creates no log directory, opens no run.log and leaves   *)
(* the content of every run.log as it was.                                 *)
(***************************************************************************)
C18_VerboseFrame ==
  [][(last_call' # last_call /\ ~last_call'.compact) =>
       /\ log_dir' = log_dir
       /\ run_log' = run_log
       /\ held' = held]_vars

\* dirA was configured in compact mode, then the router in verbose mode, and a
\* record went to standard output: dirA's run.log still has its header only
C18_Witness ==
  /\ pc = "api"
  /\ last_call.result = "returned" /\ ~last_call.compact
  /\ Len(run_log["dirA"]) = 2
  /\ log_dir = {"dirA"}
  /\ stdout # <<>>

====
